---- MODULE Spec2Model ----
(***************************************************************************)
(* A model of src/src/main.rs: the MyError taxonomy (its Display, Error    *)
(* and IntoResponse implementations) and the PasswordEnum wrapper (its     *)
(* Display implementation and is_secured).                                 *)
(*                                                                         *)
(* Text is a sequence of one-character strings.  The opaque causes         *)
(* (sqlx::Error, redis::RedisError) are carried as the text their own      *)
(* Display produces, which is all the code ever asks of them ({e}).        *)
(***************************************************************************)
EXTENDS Integers, Sequences, FiniteSets, TLC

\* ------------------------------------------------------------------ bounds

\* Longest cause text and longest password payload.
MaxLen == 2

\* Largest creation timestamp.
MaxTime == 1

\* ------------------------------------------------------------------- text

\* Characters of cause texts and payloads; the mask character is one of them.
Alphabet == {"a", "*"}

RECURSIVE TextsOfLen(_)
TextsOfLen(n) ==
    IF n = 0 THEN {<<>>}
    ELSE {Append(t, c) : t \in TextsOfLen(n - 1), c \in Alphabet}

Texts == UNION {TextsOfLen(n) : n \in 0..MaxLen}

\* s occurs in t as a contiguous substring.
Contains(t, s) ==
    \E i \in 0..(Len(t) - Len(s)) : SubSeq(t, i + 1, i + Len(s)) = s

\* Option<T>
None == [some |-> FALSE]
Some(x) == [some |-> TRUE, val |-> x]

\* ------------------------------------------------ 2. Enums: MyError

\* enum MyError { SQLError(sqlx::Error), RedisError(redis::RedisError),
\*                Forbidden, NotFound, Unauthorized }
SQLError(e) == [tag |-> "SQLError", e |-> e]
RedisError(e) == [tag |-> "RedisError", e |-> e]
Forbidden == [tag |-> "Forbidden"]
NotFound == [tag |-> "NotFound"]
Unauthorized == [tag |-> "Unauthorized"]

Wrapped == {"SQLError", "RedisError"}

MyError ==
    {SQLError(e) : e \in Texts} \cup {RedisError(e) : e \in Texts}
        \cup {Forbidden, NotFound, Unauthorized}

\* The string literals of the two match expressions.
LitSqlError == <<"S", "Q", "L", " ", "E", "r", "r", "o", "r", ":", " ">>
LitRedisError == <<"R", "e", "d", "i", "s", " ", "E", "r", "r", "o", "r", ":", " ">>
LitForbidden == <<"F", "o", "r", "b", "i", "d", "d", "e", "n">>
LitNotFound == <<"N", "o", "t", " ", "F", "o", "u", "n", "d">>
LitUnauthorized == <<"U", "n", "a", "u", "t", "h", "o", "r", "i", "z", "e", "d">>
\* "SQL Error {e}" and "REDIS Error {e}" are plain string literals inside a
\* block, not format strings: the braces and the e are part of the text.
LitSqlBody == <<"S", "Q", "L", " ", "E", "r", "r", "o", "r", " ", "{", "e", "}">>
LitRedisBody == <<"R", "E", "D", "I", "S", " ", "E", "r", "r", "o", "r", " ", "{", "e", "}">>

\* A faulty Display that leaves the wrapped cause out of the text.
fmt_nocause(self) ==
    CASE self.tag = "SQLError" -> LitSqlError
      [] self.tag = "RedisError" -> LitRedisError
      [] self.tag = "Forbidden" -> LitForbidden
      [] self.tag = "NotFound" -> LitNotFound
      [] self.tag = "Unauthorized" -> LitUnauthorized

\* impl fmt::Display for MyError: write!(f, "SQL Error: {e}") and so on.
fmt(self) ==
    CASE self.tag = "SQLError" -> LitSqlError \o self.e
      [] self.tag = "RedisError" -> LitRedisError \o self.e
      [] self.tag = "Forbidden" -> LitForbidden
      [] self.tag = "NotFound" -> LitNotFound
      [] self.tag = "Unauthorized" -> LitUnauthorized

\* A source() that hands out the wrapped cause of the two wrapping variants.
source_wrapped(self) ==
    IF self.tag \in Wrapped THEN Some(self.e) ELSE None

\* impl Error for MyError {}: source() is the trait's default, which is None.
source(self) == None

\* axum::http::StatusCode
INTERNAL_SERVER_ERROR == 500
FORBIDDEN == 403
NOT_FOUND == 404
UNAUTHORIZED == 401

\* A faulty mapping that matches the two wrapping variants and sends every
\* other variant through a default arm.
into_response_default(self) ==
    CASE self.tag = "SQLError" -> <<INTERNAL_SERVER_ERROR, LitSqlBody>>
      [] self.tag = "RedisError" -> <<INTERNAL_SERVER_ERROR, LitRedisBody>>
      [] OTHER -> <<INTERNAL_SERVER_ERROR, fmt(self)>>

\* A faulty mapping with the statuses of Forbidden and Unauthorized exchanged.
into_response_swapped(self) ==
    CASE self.tag = "SQLError" -> <<INTERNAL_SERVER_ERROR, LitSqlBody>>
      [] self.tag = "RedisError" -> <<INTERNAL_SERVER_ERROR, LitRedisBody>>
      [] self.tag = "Forbidden" -> <<UNAUTHORIZED, LitForbidden>>
      [] self.tag = "NotFound" -> <<NOT_FOUND, LitNotFound>>
      [] self.tag = "Unauthorized" -> <<FORBIDDEN, LitUnauthorized>>

\* impl IntoResponse for MyError: (status, body).  No configuration is read.
into_response(self) ==
    CASE self.tag = "SQLError" -> <<INTERNAL_SERVER_ERROR, LitSqlBody>>
      [] self.tag = "RedisError" -> <<INTERNAL_SERVER_ERROR, LitRedisBody>>
      [] self.tag = "Forbidden" -> <<FORBIDDEN, LitForbidden>>
      [] self.tag = "NotFound" -> <<NOT_FOUND, LitNotFound>>
      [] self.tag = "Unauthorized" -> <<UNAUTHORIZED, LitUnauthorized>>

\* ------------------------------------------- 2. Enums: PasswordEnum

\* The mask: '*'.to_owned()
MaskChar == "*"

\* A faulty mask that lets the first character of the payload through.
mask_leaky(s) == [i \in 1..Len(s) |-> IF i = 1 THEN s[i] ELSE MaskChar]

\* password.chars().map(|_| '*'.to_owned()).collect::<String>()
mask(s) == [i \in 1..Len(s) |-> MaskChar]

\* A faulty constructor that stores the masked form instead of the payload.
Password_masked(password, created_at) ==
    [password |-> mask(password), created_at |-> created_at]

\* struct Password { password: String, created_at: DateTime<Utc> }
Password(password, created_at) ==
    [password |-> password, created_at |-> created_at]

\* enum PasswordEnum { Secured(Password), Unsecured(Password) }
Flags == {"Secured", "Unsecured"}
PasswordEnum(flag, p) == [tag |-> flag, p |-> p]

\* A faulty Display whose Secured arm assigns the masked text to the payload
\* field itself instead of to the arm's local name.
fmt_password_inplace(self) ==
    CASE self.tag = "Secured" ->
            [out |-> mask(self.p.password),
             self |-> [self EXCEPT !.p.password = mask(self.p.password)]]
      [] self.tag = "Unsecured" -> [out |-> <<>>, self |-> self]

\* impl fmt::Display for PasswordEnum.  The result is what the formatter has
\* received and the value as the call leaves it.  The Secured arm builds the
\* masked text, binds it to the arm's local name and writes it; the
\* Unsecured arm builds the (lazy) mapping, binds it and writes nothing.
\* Both assignments rebind a local name: self is borrowed immutably.
fmt_password(self) ==
    CASE self.tag = "Secured" -> [out |-> mask(self.p.password), self |-> self]
      [] self.tag = "Unsecured" -> [out |-> <<>>, self |-> self]

\* A faulty is_secured that looks at the payload instead of the variant.
is_secured_by_payload(self) == self.p.password # <<>>

\* impl PasswordEnum { fn is_secured(&self) -> bool }
is_secured(self) ==
    CASE self.tag = "Secured" -> TRUE
      [] self.tag = "Unsecured" -> FALSE

\* The payload field of the wrapped Password, read in place.
reveal(self) == self.p.password

\* PasswordEnum::Secured(Password { password, created_at }) or ::Unsecured(..)
construct(raw, at, flag) == PasswordEnum(flag, Password(raw, at))

\* ------------------------------------------------------------ the state

\* Two service instances; each holds at most one failure at a time.
Runs == {"r1", "r2"}

\* Concurrent holders of a shared reference to the one PasswordEnum value.
Callers == {"c1", "c2"}

VARIABLES
    includeCause,   \* per run: the response-verbosity setting, fixed at startup
                    \* (no code under src/ reads it)
    err,            \* per run: Option<MyError>, the failure being handled
    rendered,       \* per run: Option<text>, what Display produced for err
    response,       \* per run: Option<(status, body)>, what into_response gave
    cause,          \* per run: Option<Option<text>>, what Error::source gave
    pw,             \* the PasswordEnum value
    args,           \* the payload, timestamp and flag pw was constructed from
    shown,          \* per caller: Option<text>, what Display produced for pw
    first,          \* Option<text>: what the first Display of pw produced
    secured,        \* per caller: Option<bool>, what is_secured returned
    revealed        \* per caller: Option<text>, the payload field as read

evars == <<includeCause, err, rendered, response, cause>>
pvars == <<pw, args, shown, first, secured, revealed>>
vars == <<evars, pvars>>

\* ------------------------------------------------------ MyError: actions

InitError ==
    /\ includeCause \in [Runs -> BOOLEAN]
    /\ err = [r \in Runs |-> None]
    /\ rendered = [r \in Runs |-> None]
    /\ response = [r \in Runs |-> None]
    /\ cause = [r \in Runs |-> None]
    /\ pw = construct(<<>>, 0, "Secured")
    /\ args = [raw |-> <<>>, at |-> 0, flag |-> "Secured"]
    /\ shown = [c \in Callers |-> None]
    /\ first = None
    /\ secured = [c \in Callers |-> None]
    /\ revealed = [c \in Callers |-> None]

\* A collaborator's failure is wrapped in a variant, or a policy outcome is
\* raised as a parameterless one.
Raise(r, e) ==
    /\ ~err[r].some
    /\ err' = [err EXCEPT ![r] = Some(e)]
    /\ UNCHANGED <<includeCause, rendered, response, cause, pvars>>

\* format!("{}", err)
Display(r) ==
    /\ err[r].some
    /\ rendered' = [rendered EXCEPT ![r] = Some(fmt(err[r].val))]
    /\ UNCHANGED <<includeCause, err, response, cause, pvars>>

\* err.into_response()
Respond(r) ==
    /\ err[r].some
    /\ response' = [response EXCEPT ![r] = Some(into_response(err[r].val))]
    /\ UNCHANGED <<includeCause, err, rendered, cause, pvars>>

\* err.source()
Source(r) ==
    /\ err[r].some
    /\ cause' = [cause EXCEPT ![r] = Some(source(err[r].val))]
    /\ UNCHANGED <<includeCause, err, rendered, response, pvars>>

\* The failure and everything derived from it go out of scope.
Drop(r) ==
    /\ err[r].some
    /\ err' = [err EXCEPT ![r] = None]
    /\ rendered' = [rendered EXCEPT ![r] = None]
    /\ response' = [response EXCEPT ![r] = None]
    /\ cause' = [cause EXCEPT ![r] = None]
    /\ UNCHANGED <<includeCause, pvars>>

NextError ==
    \/ \E r \in Runs, e \in MyError : Raise(r, e)
    \/ \E r \in Runs : Display(r)
    \/ \E r \in Runs : Respond(r)
    \/ \E r \in Runs : Source(r)
    \/ \E r \in Runs : Drop(r)

\* ------------------------------------------------- PasswordEnum: actions

InitPassword ==
    /\ \E raw \in Texts, at \in 0..MaxTime, flag \in Flags :
        /\ pw = construct(raw, at, flag)
        /\ args = [raw |-> raw, at |-> at, flag |-> flag]
    /\ shown = [c \in Callers |-> None]
    /\ first = None
    /\ secured = [c \in Callers |-> None]
    /\ revealed = [c \in Callers |-> None]
    /\ includeCause = [r \in Runs |-> TRUE]
    /\ err = [r \in Runs |-> None]
    /\ rendered = [r \in Runs |-> None]
    /\ response = [r \in Runs |-> None]
    /\ cause = [r \in Runs |-> None]

\* format!("{}", pw)
Show(c) ==
    LET r == fmt_password(pw) IN
    /\ pw' = r.self
    /\ shown' = [shown EXCEPT ![c] = Some(r.out)]
    /\ first' = IF first.some THEN first ELSE Some(r.out)
    /\ UNCHANGED <<args, secured, revealed, evars>>

\* pw.is_secured()
IsSecured(c) ==
    /\ secured' = [secured EXCEPT ![c] = Some(is_secured(pw))]
    /\ UNCHANGED <<pw, args, shown, first, revealed, evars>>

\* the payload field, read through the shared reference
Reveal(c) ==
    /\ revealed' = [revealed EXCEPT ![c] = Some(reveal(pw))]
    /\ UNCHANGED <<pw, args, shown, first, secured, evars>>

NextPassword ==
    \/ \E c \in Callers : Show(c)
    \/ \E c \in Callers : IsSecured(c)
    \/ \E c \in Callers : Reveal(c)

\* -------------------------------------------------------- specifications

\* The error taxonomy at work; the password part holds one fixed value.
SpecError == InitError /\ [][NextError]_vars

\* The password wrapper at work; no failure is raised.
SpecPassword == InitPassword /\ [][NextPassword]_vars

\* ------------------------------------------------------------ properties

\* Text the specification names and the source does not contain.
LitInternalServerError ==
    <<"I", "n", "t", "e", "r", "n", "a", "l", " ",
      "S", "e", "r", "v", "e", "r", " ", "E", "r", "r", "o", "r">>
LitStoreError == <<"S", "t", "o", "r", "e", " ", "e", "r", "r", "o", "r", ":", " ">>

Tags == {"SQLError", "RedisError", "Forbidden", "NotFound", "Unauthorized"}

\* C1: into_response answers every one of the five variants, with status 500
\* for SQLError and for RedisError, (403, "Forbidden") for Forbidden,
\* (404, "Not Found") for NotFound and (401, "Unauthorized") for
\* Unauthorized; no variant gets any other status.
C1_ResponseTable ==
    \A r \in Runs : response[r].some =>
        LET e == err[r].val
            resp == response[r].val
        IN  /\ e.tag \in Tags
            /\ e.tag = "SQLError" => resp[1] = 500
            /\ e.tag = "RedisError" => resp[1] = 500
            /\ e.tag = "Forbidden" => resp = <<403, LitForbidden>>
            /\ e.tag = "NotFound" => resp = <<404, LitNotFound>>
            /\ e.tag = "Unauthorized" => resp = <<401, LitUnauthorized>>

\* A wrapped failure and a parameterless one have both been answered.
C1_Witness ==
    \E r1, r2 \in Runs :
        /\ response[r1].some /\ err[r1].val.tag = "RedisError"
        /\ response[r2].some /\ err[r2].val = NotFound

\* C2: for SQLError(cause) and RedisError(cause) the response body is the
\* Display text of the same value when includeCause is true and the fixed
\* text "Internal Server Error" when it is false, with status 500.
C2_BodyIsRenderOrFixed ==
    \A r \in Runs :
        (response[r].some /\ err[r].val.tag \in Wrapped) =>
            response[r].val =
                <<500, IF includeCause[r] THEN fmt(err[r].val)
                                          ELSE LitInternalServerError>>

\* C3 (as stated): Display answers every variant; the text of a wrapping
\* variant contains the cause's text, that of SQLError(cause) being
\* "Store error: <cause>"; the parameterless variants give "Forbidden",
\* "Not Found" and "Unauthorized".
C3_RenderAsStated ==
    \A r \in Runs : rendered[r].some =>
        LET e == err[r].val
            out == rendered[r].val
        IN  /\ e.tag \in Wrapped => Contains(out, e.e)
            /\ e.tag = "SQLError" => out = LitStoreError \o e.e
            /\ e.tag = "Forbidden" => out = LitForbidden
            /\ e.tag = "NotFound" => out = LitNotFound
            /\ e.tag = "Unauthorized" => out = LitUnauthorized

\* C3 (amended): as stated, except that the text of SQLError(cause) is
\* "SQL Error: <cause>".
C3_Render ==
    \A r \in Runs : rendered[r].some =>
        LET e == err[r].val
            out == rendered[r].val
        IN  /\ e.tag \in Tags
            /\ e.tag \in Wrapped => Contains(out, e.e)
            /\ e.tag = "SQLError" => out = LitSqlError \o e.e
            /\ e.tag = "Forbidden" => out = LitForbidden
            /\ e.tag = "NotFound" => out = LitNotFound
            /\ e.tag = "Unauthorized" => out = LitUnauthorized

\* A wrapping variant with a non-empty cause and a parameterless one have
\* both been rendered.
C3_Witness ==
    \E r1, r2 \in Runs :
        /\ rendered[r1].some /\ err[r1].val.tag = "SQLError"
        /\ err[r1].val.e # <<>>
        /\ rendered[r2].some /\ err[r2].val = Unauthorized

C6_ForbiddenIgnoresConfig ==
    \A r1, r2 \in Runs :
        (/\ response[r1].some /\ err[r1].val = Forbidden
         /\ response[r2].some /\ err[r2].val = Forbidden) =>
            /\ response[r1].val = response[r2].val
            /\ response[r1].val = <<403, LitForbidden>>

\* Forbidden has been answered in two runs whose includeCause differ.
C6_Witness ==
    \E r1, r2 \in Runs :
        /\ includeCause[r1] /\ ~includeCause[r2]
        /\ response[r1].some /\ err[r1].val = Forbidden
        /\ response[r2].some /\ err[r2].val = Forbidden

\* C7: displaying a value constructed as Unsecured gives the payload
\* unchanged.
C7_UnsecuredDisplayIsRaw ==
    \A c \in Callers :
        (shown[c].some /\ args.flag = "Unsecured") => shown[c].val = args.raw

\* C8: is_secured is true exactly for a value constructed as Secured and
\* false exactly for one constructed as Unsecured, whatever the payload and
\* the timestamp.
C8_IsSecuredIsTheFlag ==
    \A c \in Callers : secured[c].some =>
        /\ secured[c].val = (args.flag = "Secured")
        /\ \A t \in Texts, at \in 0..MaxTime :
                is_secured(construct(t, at, args.flag)) = secured[c].val

\* is_secured has returned false for an Unsecured value with a non-empty
\* payload and a non-zero timestamp.
C8_Witness ==
    \E c \in Callers :
        /\ secured[c].some /\ ~secured[c].val
        /\ args.flag = "Unsecured" /\ args.raw # <<>> /\ args.at > 0

\* C9: whatever the callers have done, in whatever order, the value still
\* holds the payload, timestamp and flag it was constructed from; every
\* read of the payload gives the original and every display gives the text
\* the first display gave.
C9_NeverMutated ==
    /\ pw = construct(args.raw, args.at, args.flag)
    /\ \A c \in Callers : revealed[c].some => revealed[c].val = args.raw
    /\ \A c \in Callers : shown[c].some => (first.some /\ shown[c].val = first.val)

\* Every caller has displayed, queried and read back a Secured value whose
\* payload is not its own mask.
C9_Witness ==
    /\ args.flag = "Secured" /\ args.raw # mask(args.raw)
    /\ \A c \in Callers : shown[c].some /\ secured[c].some /\ revealed[c].some

\* C10 (as stated): source() gives the wrapped cause for SQLError(cause)
\* and RedisError(cause), and none for the parameterless variants.
C10_SourceAsStated ==
    \A r \in Runs : cause[r].some =>
        cause[r].val =
            IF err[r].val.tag \in Wrapped THEN Some(err[r].val.e) ELSE None

\* C10 (amended): source() gives none for every one of the five variants,
\* the two wrapping ones included.
C10_SourceIsNone ==
    \A r \in Runs : cause[r].some =>
        (err[r].val.tag \in Tags /\ cause[r].val = None)

\* source() has been asked of a wrapping variant with a non-empty cause and
\* of a parameterless one.
C10_Witness ==
    \E r1, r2 \in Runs :
        /\ cause[r1].some /\ err[r1].val.tag = "SQLError" /\ err[r1].val.e # <<>>
        /\ cause[r2].some /\ err[r2].val = Forbidden

====
